---- MODULE Spec2Model ----
(***************************************************************************)
(* Model of the sentient-redactor-service client tooling:                  *)
(*   - pcr_verifier.py : verify_pcrs and the attestation text parser of    *)
(*     get_pcrs_from_server;                                               *)
(*   - test_client.py  : main, from the handshake to the end of the run.   *)
(* Python str and bytes values are sequences of one-character strings and  *)
(* of byte values; a Python dict is the sequence of its <<key, value>>     *)
(* items in insertion order.                                               *)
(***************************************************************************)
EXTENDS Integers, Sequences, FiniteSets, TLC

VARIABLES
    \* ---- verify_pcrs(expected, actual) ----
    expected,       \* dict: the expected PCRs
    actual,         \* dict: the PCRs taken from the server
    vpc,            \* "call" before verify_pcrs ran, "done" after
    verdict,        \* what verify_pcrs returned and printed
    \* ---- test_client.py: main and test_secure_upload ----
    cpc,                    \* position of the client process
    run,                    \* number of the client process run
    urandom_draws,          \* values the OS random source has handed out
    server_public_key,      \* main: result of test_handshake
    file,                   \* the file main selected: its name and content on disk
    strategy,               \* main: redaction strategy
    test_content,           \* test_secure_upload: f.read()
    session_key,            \* test_secure_upload: generate_session_key()
    encrypted_session_key,  \* test_secure_upload: encrypt_session_key(...)
    encrypted_file_data,    \* test_secure_upload: encrypt_file_with_session_key(...)
    inflight,               \* the upload request on the wire, if any
    upload_result,          \* what test_secure_upload returned
    download_inflight,      \* the download request on the wire, if any
    downloaded_filename,    \* main: result of download_file
    failed_step,            \* the step of this run that failed and was caught, if any
    log,                    \* history of the runs: handshakes, seals, requests sent
    \* ---- get_pcrs_from_server ----
    rendering,      \* how the attestation server built its reply
    response,       \* what requests.post returned: status_code and text
    ppc,            \* "call" before get_pcrs_from_server ran, "done" after
    current_pcrs    \* the dict get_pcrs_from_server returned

varsVerify == <<expected, actual, vpc, verdict>>

varsClient == <<cpc, run, urandom_draws, server_public_key, file, strategy,
                test_content, session_key, encrypted_session_key,
                encrypted_file_data, inflight, upload_result, log,
                download_inflight, downloaded_filename, failed_step>>

varsAfterUpload == <<download_inflight, downloaded_filename, failed_step>>

varsParse == <<rendering, response, ppc, current_pcrs>>

vars == <<varsVerify, varsClient, varsParse>>

(***************************************************************************)
(* Bounds of the model.                                                    *)
(***************************************************************************)
MaxKeys == 2        \* PCR indices drawn from the first MaxKeys of KeyPool
MaxDigests == 3     \* digests drawn from the first MaxDigests of DigestPool
MaxRuns == 2        \* client process runs in one behaviour
MaxSegs == 2        \* comma-separated segments in one attestation line

(***************************************************************************)
(* Python dict, as the sequence of its items in insertion order.           *)
(***************************************************************************)
DictHas(d, k) == \E i \in 1..Len(d) : d[i][1] = k

DictGet(d, k) == d[CHOOSE i \in 1..Len(d) : d[i][1] = k][2]

DictKeys(d) == {d[i][1] : i \in 1..Len(d)}

\* d[k] = v : an existing key keeps its position, a new key goes last
DictSet(d, k, v) ==
    IF DictHas(d, k)
    THEN [i \in 1..Len(d) |-> IF d[i][1] = k THEN <<k, v>> ELSE d[i]]
    ELSE Append(d, <<k, v>>)

RECURSIVE DictDel(_, _)
DictDel(d, k) ==
    IF d = <<>> THEN <<>>
    ELSE IF Head(d)[1] = k THEN DictDel(Tail(d), k)
    ELSE <<Head(d)>> \o DictDel(Tail(d), k)

(***************************************************************************)
(* Input domains of the verifier.                                          *)
(***************************************************************************)
KeyPool == << <<"0">>, <<"2">>, <<"1", "0">>, <<"1">> >>

DigestPool == << <<"a", "a">>, <<"A", "A">>, <<"b", "1">>, <<"B", "1">>, <<"a", "A">> >>

PcrKeys == {KeyPool[i] : i \in 1..MaxKeys}

Digests == {DigestPool[i] : i \in 1..MaxDigests}

\* every dict over PcrKeys, in every insertion order
OrderedDicts ==
    UNION {{d \in [1..n -> PcrKeys \X Digests] :
                \A i, j \in 1..n : i # j => d[i][1] # d[j][1]} : n \in 0..MaxKeys}

\* every dict over PcrKeys, keys in KeyPool order (lookups are by key only)
PoolOrderDicts ==
    {d \in OrderedDicts :
        \A i, j \in 1..Len(d) : i < j =>
            \E a, b \in 1..MaxKeys : a < b /\ KeyPool[a] = d[i][1] /\ KeyPool[b] = d[j][1]}

(***************************************************************************)
(* bytes.fromhex on one digest: the value of each hex character.           *)
(***************************************************************************)
HexVal(c) ==
    CASE c = "0" -> 0 [] c = "1" -> 1 [] c = "2" -> 2 [] c = "3" -> 3
      [] c = "a" -> 10 [] c = "A" -> 10 [] c = "b" -> 11 [] c = "B" -> 11
      [] c = "c" -> 12 [] c = "C" -> 12
      [] OTHER -> -1

HexDecode(s) == [i \in 1..Len(s) |-> HexVal(s[i])]

(***************************************************************************)
(* verify_pcrs                                                             *)
(***************************************************************************)
\* the branch the loop body takes for one item of expected
ClassifyPcr(act, item) ==
    IF ~DictHas(act, item[1]) THEN "NOT_FOUND"
    ELSE IF DictGet(act, item[1]) # item[2] THEN "MISMATCH"
    ELSE "MATCH"

\* the line(s) the loop body prints for one item, and its mismatches entry
OutcomeOf(act, item) ==
    LET c == ClassifyPcr(act, item) IN
    CASE c = "NOT_FOUND" -> [kind |-> "NOT_FOUND", pcr |-> item[1],
                             expected |-> item[2], actual |-> <<>>]
      [] c = "MISMATCH"  -> [kind |-> "MISMATCH", pcr |-> item[1],
                             expected |-> item[2], actual |-> DictGet(act, item[1])]
      [] OTHER           -> [kind |-> "MATCH", pcr |-> item[1],
                             expected |-> item[2], actual |-> item[2]]

\* the for loop over expected.items(): one outcome per item, in dict order
RECURSIVE VerifyLoop(_, _)
VerifyLoop(items, act) ==
    IF items = <<>> THEN <<>>
    ELSE <<OutcomeOf(act, Head(items))>> \o VerifyLoop(Tail(items), act)

IsMismatchEntry(o) == o.kind # "MATCH"

\* the mismatches list: (pcr_num, expected_value, "NOT_FOUND" | actual value)
MismatchesOf(outcomes) == SelectSeq(outcomes, IsMismatchEntry)

\* a slip that also fails on PCRs the server reports but nobody expects
verify_pcrs_extra_fails(exp, act) ==
    IF exp = <<>> \/ act = <<>>
    THEN [ret |-> FALSE, printed |-> <<>>, mismatches |-> <<>>, summary |-> "none"]
    ELSE LET outcomes == VerifyLoop(exp, act)
             mismatches == MismatchesOf(outcomes)
         IN  IF mismatches # <<>> \/ ~(DictKeys(act) \subseteq DictKeys(exp))
             THEN [ret |-> FALSE, printed |-> outcomes, mismatches |-> mismatches,
                   summary |-> "FAILED"]
             ELSE [ret |-> TRUE, printed |-> outcomes, mismatches |-> mismatches,
                   summary |-> "PASSED"]

verify_pcrs(exp, act) ==
    IF exp = <<>> \/ act = <<>>
    THEN [ret |-> FALSE, printed |-> <<>>, mismatches |-> <<>>, summary |-> "none"]
    ELSE LET outcomes == VerifyLoop(exp, act)
             mismatches == MismatchesOf(outcomes)
         IN  IF mismatches # <<>>
             THEN [ret |-> FALSE, printed |-> outcomes, mismatches |-> mismatches,
                   summary |-> "FAILED"]
             ELSE [ret |-> TRUE, printed |-> outcomes, mismatches |-> mismatches,
                   summary |-> "PASSED"]

NotRun == [ret |-> FALSE, printed |-> <<>>, mismatches |-> <<>>, summary |-> "not run"]

VerifyInit ==
    /\ expected \in OrderedDicts
    /\ actual \in PoolOrderDicts
    /\ vpc = "call"
    /\ verdict = NotRun

VerifyIdle ==
    /\ expected = <<>>
    /\ actual = <<>>
    /\ vpc = "idle"
    /\ verdict = NotRun

VerifyPcrs ==
    /\ vpc = "call"
    /\ verdict' = verify_pcrs(expected, actual)
    /\ vpc' = "done"
    /\ UNCHANGED <<expected, actual, varsClient, varsParse>>

(***************************************************************************)
(* test_client.py: values.                                                 *)
(* Random bytes are symbolic: the n-th value handed out by os.urandom is   *)
(* a value no other draw returns.  Ciphertexts are symbolic terms over the *)
(* key, the nonce and the plaintext; a bytes value built by a cipher is    *)
(* the sequence of its parts.  base64 text is a wrapper around the bytes   *)
(* it encodes.                                                             *)
(***************************************************************************)
None == [kind |-> "None"]

KeyLen == 32            \* generate_session_key: os.urandom(32)
NonceLen == 12          \* b'\x00' * 12
TagLen == 16            \* ChaCha20Poly1305 authentication tag
AeadMaxSize == 2147483647   \* ChaCha20Poly1305.encrypt: OverflowError above 2^31 - 1 bytes

\* os.urandom(n): the next value of the OS random source
urandom(n) == [kind |-> "urandom", len |-> n, draw |-> urandom_draws + 1]

\* generate_session_key, with a key that is the same in every call
generate_session_key_fixed == [kind |-> "urandom", len |-> KeyLen, draw |-> 0]

generate_session_key == urandom(KeyLen)

\* b'\x00' * 12
ZeroNonce == [kind |-> "bytes", val |-> [i \in 1..NonceLen |-> 0]]

\* str values read from a file: chars repeated `times` times
Str(chars) == [chars |-> chars, times |-> 1]

\* a file of 2 * (2^31 - 1) characters
HugeContent == [chars |-> <<"h", "i">>, times |-> AeadMaxSize]

FileContents == {Str(<<"h", "i">>), Str(<<>>), HugeContent}

Missing == [kind |-> "missing"]

Unreadable == [kind |-> "unreadable"]

FileNames == { <<"d", ".", "t", "x", "t">>, <<"a", ".", "b", ".", "c">>, <<"n">> }

Files == [name : FileNames, content : FileContents \cup {Missing, Unreadable}]

Strategies == {"replace", "mask", "fake"}

\* str.encode('utf-8') of the characters the model uses
Utf8Char(c) ==
    CASE c = "h" -> 104 [] c = "i" -> 105 [] OTHER -> 63

Utf8Encode(str) ==
    [unit |-> [i \in 1..Len(str.chars) |-> Utf8Char(str.chars[i])], times |-> str.times]

BytesLen(b) == Len(b.unit) * b.times

\* len(data) > 2^31 - 1, computed without leaving 32-bit integers
ExceedsAeadMax(b) == Len(b.unit) > 0 /\ b.times > AeadMaxSize \div Len(b.unit)

\* base64.b64encode(x).decode('utf-8') and base64.b64decode
B64Encode(bytes) == [kind |-> "base64", of |-> bytes]

B64Decode(text) == text.of

\* ChaCha20Poly1305(key).encrypt(nonce, data, None): ciphertext || tag
CipherEncrypt(key, nonce, data) ==
    << [kind |-> "chacha20", key |-> key, nonce |-> nonce, data |-> data,
        len |-> BytesLen(data)],
       [kind |-> "poly1305", key |-> key, nonce |-> nonce, data |-> data,
        len |-> TagLen] >>

(***************************************************************************)
(* The server's public key blob, as the handshake reply carries it.        *)
(***************************************************************************)
RsaPem == [kind |-> "str", pem |-> "RSA PUBLIC KEY", empty |-> FALSE]

EcPem == [kind |-> "str", pem |-> "EC PUBLIC KEY", empty |-> FALSE]

GarbagePem == [kind |-> "str", pem |-> "not a key", empty |-> FALSE]

EmptyStr == [kind |-> "str", pem |-> "", empty |-> TRUE]

KeyBlobs == {RsaPem, EcPem, GarbagePem, EmptyStr}

\* what requests.get(base_url/handshake) can do
HandshakeReplies ==
    {[net |-> "unreachable", status |-> 0, json |-> "none", public_key |-> None]}
    \cup {[net |-> "ok", status |-> 500, json |-> "none", public_key |-> None]}
    \cup {[net |-> "ok", status |-> 200, json |-> "invalid", public_key |-> None]}
    \cup {[net |-> "ok", status |-> 200, json |-> "no public_key", public_key |-> None]}
    \cup {[net |-> "ok", status |-> 200, json |-> "ok", public_key |-> b] : b \in KeyBlobs}

\* test_handshake: the value it returns for a reply
test_handshake(reply) ==
    IF reply.net # "ok" THEN None                   \* except Exception
    ELSE IF reply.status # 200 THEN None
    ELSE IF reply.json # "ok" THEN None             \* response.json() / KeyError
    ELSE reply.public_key

\* Python truth value of main's server_public_key
Truthy(v) == v # None /\ ~v.empty

\* serialization.load_pem_public_key(server_public_key_pem.encode())
load_pem_public_key(blob) ==
    CASE blob = RsaPem -> [raised |-> FALSE, value |-> [kind |-> "RSAPublicKey", pem |-> blob]]
      [] blob = EcPem  -> [raised |-> FALSE, value |-> [kind |-> "ECPublicKey", pem |-> blob]]
      [] OTHER         -> [raised |-> TRUE, value |-> None]     \* ValueError

\* encrypt_session_key: OAEP draws its seed from the OS random source
encrypt_session_key(key, server_public_key_pem) ==
    LET loaded == load_pem_public_key(server_public_key_pem) IN
    IF loaded.raised THEN [raised |-> TRUE, value |-> None]
    ELSE IF loaded.value.kind # "RSAPublicKey"
    THEN [raised |-> TRUE, value |-> None]          \* no encrypt() on the key
    ELSE [raised |-> FALSE,
          value |-> B64Encode(<< [kind |-> "rsa_oaep", pub |-> server_public_key_pem,
                                  msg |-> key, seed |-> urandom(KeyLen)] >>)]

\* the nonce encrypt_file_with_session_key encrypts with
FileNonce == ZeroNonce

\* encrypt_file_with_session_key
encrypt_file_with_session_key(file_content, key) ==
    LET data == Utf8Encode(file_content) IN
    IF key.len # KeyLen THEN [raised |-> TRUE, value |-> None, nonce |-> None]
    ELSE IF ExceedsAeadMax(data)
    THEN [raised |-> TRUE, value |-> None, nonce |-> FileNonce]
    ELSE [raised |-> FALSE, value |-> B64Encode(CipherEncrypt(key, FileNonce, data)),
          nonce |-> FileNonce]

\* filename.rsplit('.', 1)[0] when '.' in filename, else filename
RECURSIVE LastDot(_, _)
LastDot(name, i) ==
    IF i = 0 THEN 0 ELSE IF name[i] = "." THEN i ELSE LastDot(name, i - 1)

NameWithoutExt(name) ==
    LET d == LastDot(name, Len(name)) IN
    IF d = 0 THEN name ELSE SubSeq(name, 1, d - 1)

\* what requests.post(base_url/upload) can do
UploadReplies ==
    { [net |-> "unreachable", status |-> 0, json |-> "none"],
      [net |-> "ok", status |-> 500, json |-> "none"],
      [net |-> "ok", status |-> 200, json |-> "invalid"],
      [net |-> "ok", status |-> 200, json |-> "ok"] }

(***************************************************************************)
(* test_client.py: main, one action per step.                              *)
(***************************************************************************)
ClientLocalsReset ==
    /\ server_public_key' = None
    /\ file' = None
    /\ strategy' = "unset"
    /\ test_content' = None
    /\ session_key' = None
    /\ encrypted_session_key' = None
    /\ encrypted_file_data' = None
    /\ inflight' = None
    /\ upload_result' = None
    /\ download_inflight' = None
    /\ downloaded_filename' = None
    /\ failed_step' = "none"

ClientInit ==
    /\ cpc = "handshake"
    /\ run = 1
    /\ urandom_draws = 0
    /\ server_public_key = None
    /\ file = None
    /\ strategy = "unset"
    /\ test_content = None
    /\ session_key = None
    /\ encrypted_session_key = None
    /\ encrypted_file_data = None
    /\ inflight = None
    /\ upload_result = None
    /\ log = <<>>
    /\ download_inflight = None
    /\ downloaded_filename = None
    /\ failed_step = "none"

ClientIdle ==
    /\ cpc = "idle"
    /\ run = 0
    /\ urandom_draws = 0
    /\ server_public_key = None
    /\ file = None
    /\ strategy = "unset"
    /\ test_content = None
    /\ session_key = None
    /\ encrypted_session_key = None
    /\ encrypted_file_data = None
    /\ inflight = None
    /\ upload_result = None
    /\ log = <<>>
    /\ download_inflight = None
    /\ downloaded_filename = None
    /\ failed_step = "none"

\* main: server_public_key = test_handshake(base_url); exit(1) when falsy
Handshake ==
    /\ cpc = "handshake"
    /\ \E reply \in HandshakeReplies :
         LET key == test_handshake(reply) IN
         /\ server_public_key' = key
         /\ log' = Append(log, [ev |-> "handshake", run |-> run, reply |-> reply,
                                returned |-> key])
         /\ cpc' = IF Truthy(key) THEN "select_file" ELSE "exit1"
    /\ UNCHANGED <<run, urandom_draws, file, strategy, test_content, session_key,
                   encrypted_session_key, encrypted_file_data, inflight, upload_result>>
    /\ UNCHANGED <<varsVerify, varsParse, varsAfterUpload>>

\* main: the file (--file, checked with Path.exists, or typed in) and the strategy
SelectFile ==
    /\ cpc = "select_file"
    /\ \E f \in Files, s \in Strategies, from_args \in BOOLEAN :
         IF from_args /\ f.content = Missing
         THEN /\ cpc' = "exit1"
              /\ UNCHANGED <<file, strategy>>
         ELSE /\ file' = f
              /\ strategy' = s
              /\ cpc' = "read_file"
    /\ UNCHANGED <<run, urandom_draws, server_public_key, test_content, session_key,
                   encrypted_session_key, encrypted_file_data, inflight, upload_result,
                   log>>
    /\ UNCHANGED <<varsVerify, varsParse, varsAfterUpload>>

\* test_secure_upload: open(filename).read(); only FileNotFoundError is caught
ReadFile ==
    /\ cpc = "read_file"
    /\ IF file.content = Missing
       THEN /\ cpc' = "exit1"               \* return None; main exits
            /\ UNCHANGED test_content
       ELSE IF file.content = Unreadable
       THEN /\ cpc' = "crashed"             \* the exception leaves main
            /\ UNCHANGED test_content
       ELSE /\ test_content' = file.content
            /\ cpc' = "gen_key"
    /\ UNCHANGED <<run, urandom_draws, server_public_key, file, strategy, session_key,
                   encrypted_session_key, encrypted_file_data, inflight, upload_result,
                   log>>
    /\ UNCHANGED <<varsVerify, varsParse, varsAfterUpload>>

\* key generation held back until a verification has passed
GenerateSessionKey_gated ==
    /\ cpc = "gen_key"
    /\ vpc = "done" /\ verdict.ret
    /\ session_key' = generate_session_key
    /\ urandom_draws' = urandom_draws + 1
    /\ log' = Append(log, [ev |-> "generate", run |-> run, key |-> session_key'])
    /\ cpc' = "wrap_key"
    /\ UNCHANGED <<run, server_public_key, file, strategy, test_content,
                   encrypted_session_key, encrypted_file_data, inflight, upload_result>>
    /\ UNCHANGED <<varsVerify, varsParse, varsAfterUpload>>

\* test_secure_upload step 1
GenerateSessionKey ==
    /\ cpc = "gen_key"
    /\ session_key' = generate_session_key
    /\ urandom_draws' = urandom_draws + 1
    /\ log' = Append(log, [ev |-> "generate", run |-> run, key |-> session_key'])
    /\ cpc' = "wrap_key"
    /\ UNCHANGED <<run, server_public_key, file, strategy, test_content,
                   encrypted_session_key, encrypted_file_data, inflight, upload_result>>
    /\ UNCHANGED <<varsVerify, varsParse, varsAfterUpload>>

\* the step after encrypt_session_key, which swallows its exception
AfterWrap_swallow(r) == "encrypt"

\* the step after encrypt_session_key: an exception ends test_secure_upload
AfterWrap(r) == IF r.raised THEN "exit1" ELSE "encrypt"

\* test_secure_upload step 2
EncryptSessionKey ==
    /\ cpc = "wrap_key"
    /\ LET r == encrypt_session_key(session_key, server_public_key) IN
         /\ encrypted_session_key' = r.value
         /\ urandom_draws' = IF r.raised THEN urandom_draws ELSE urandom_draws + 1
         /\ log' = Append(log, [ev |-> IF r.raised THEN "wrap_failed" ELSE "wrap",
                                run |-> run, key |-> session_key,
                                pub |-> server_public_key, out |-> r.value])
         /\ cpc' = AfterWrap(r)
    /\ UNCHANGED <<run, server_public_key, file, strategy, test_content, session_key,
                   encrypted_file_data, inflight, upload_result>>
    /\ UNCHANGED <<varsVerify, varsParse, varsAfterUpload>>

\* test_secure_upload step 3
EncryptFile ==
    /\ cpc = "encrypt"
    /\ LET r == encrypt_file_with_session_key(test_content, session_key) IN
         /\ encrypted_file_data' = r.value
         /\ log' = Append(log, [ev |-> IF r.raised THEN "encrypt_failed" ELSE "encrypt",
                                run |-> run, key |-> session_key, nonce |-> r.nonce,
                                data |-> Utf8Encode(test_content), out |-> r.value])
         /\ cpc' = IF r.raised THEN "exit1" ELSE "post"
    /\ UNCHANGED <<run, urandom_draws, server_public_key, file, strategy, test_content,
                   session_key, encrypted_session_key, inflight, upload_result>>
    /\ UNCHANGED <<varsVerify, varsParse, varsAfterUpload>>

\* the JSON body of the upload request
UploadPayload ==
    [encrypted_data |-> encrypted_file_data,
     encrypted_session_key |-> encrypted_session_key,
     file_name |-> NameWithoutExt(file.name),
     redaction_strategy |-> strategy]

\* test_secure_upload step 4: requests.post sends the request
PostUpload ==
    /\ cpc = "post"
    /\ inflight' = UploadPayload
    /\ log' = Append(log, [ev |-> "post", run |-> run, payload |-> UploadPayload])
    /\ cpc' = "await"
    /\ UNCHANGED <<run, urandom_draws, server_public_key, file, strategy, test_content,
                   session_key, encrypted_session_key, encrypted_file_data,
                   upload_result>>
    /\ UNCHANGED <<varsVerify, varsParse, varsAfterUpload>>

\* result["file_id"] as the server chooses it (it may be empty)
FileIds == { <<"f", "1">>, <<"f", "2">>, <<>> }

\* requests.post returns or raises; test_secure_upload returns; main exits on None
UploadResponse ==
    /\ cpc = "await"
    /\ \E reply \in UploadReplies, id \in FileIds, name \in {inflight.file_name, <<>>} :
         IF reply.net = "ok" /\ reply.status = 200 /\ reply.json = "ok"
         THEN /\ upload_result' = [kind |-> "tuple", file_id |-> id, filename |-> name]
              /\ cpc' = "uploaded"
         ELSE /\ upload_result' = None
              /\ cpc' = "exit1"
    /\ inflight' = None
    /\ UNCHANGED <<run, urandom_draws, server_public_key, file, strategy, test_content,
                   session_key, encrypted_session_key, encrypted_file_data, log>>
    /\ UNCHANGED <<varsVerify, varsParse, varsAfterUpload>>

\* what requests.get(base_url/download/file_id) can do
DownloadReplies ==
    { [net |-> "unreachable", status |-> 0],
      [net |-> "ok", status |-> 500],
      [net |-> "ok", status |-> 200] }

\* download_file: the name the content is saved under
SaveName(file_id, filename) ==
    IF filename = <<>>
    THEN <<"r", "e", "d", "a", "c", "t", "e", "d", "_">> \o file_id \o <<".", "t", "x", "t">>
    ELSE filename

\* the identifier download_file puts in its request, taken from the filename
RequestedId_filename(result) == result.filename

\* the identifier download_file puts in its request: main passes file_id
RequestedId(result) == result.file_id

\* main: download_choice; download_file returns None without a request
\* when file_id is empty, and main then exits
ChooseDownload ==
    /\ cpc = "uploaded"
    /\ \E download_choice \in {"y", "n"} :
         IF download_choice = "n"
         THEN /\ cpc' = "completed"
              /\ UNCHANGED download_inflight
         ELSE IF RequestedId(upload_result) = <<>>
         THEN /\ cpc' = "exit1"
              /\ UNCHANGED download_inflight
         ELSE /\ download_inflight' = [file_id |-> RequestedId(upload_result)]
              /\ cpc' = "await_download"
    /\ UNCHANGED <<run, urandom_draws, server_public_key, file, strategy, test_content,
                   session_key, encrypted_session_key, encrypted_file_data, inflight,
                   upload_result, log, downloaded_filename, failed_step>>
    /\ UNCHANGED <<varsVerify, varsParse>>

\* download_file: the reply, and saving the content; main exits on None
DownloadResponse ==
    /\ cpc = "await_download"
    /\ \E reply \in DownloadReplies, saved \in BOOLEAN :
         IF reply.net = "ok" /\ reply.status = 200 /\ saved
         THEN /\ downloaded_filename' =
                    [kind |-> "str",
                     chars |-> SaveName(upload_result.file_id, upload_result.filename)]
              /\ cpc' = "read_downloaded"
         ELSE /\ downloaded_filename' = None
              /\ cpc' = "exit1"
    /\ download_inflight' = None
    /\ UNCHANGED <<run, urandom_draws, server_public_key, file, strategy, test_content,
                   session_key, encrypted_session_key, encrypted_file_data, inflight,
                   upload_result, log, failed_step>>
    /\ UNCHANGED <<varsVerify, varsParse>>

\* main: read the downloaded file and highlight it; an exception is printed
\* and the run goes on
ReadDownloaded ==
    /\ cpc = "read_downloaded"
    /\ \E readable \in BOOLEAN :
         failed_step' = IF readable THEN failed_step ELSE "read_downloaded"
    /\ cpc' = "verify_choice"
    /\ UNCHANGED <<run, urandom_draws, server_public_key, file, strategy, test_content,
                   session_key, encrypted_session_key, encrypted_file_data, inflight,
                   upload_result, log, download_inflight, downloaded_filename>>
    /\ UNCHANGED <<varsVerify, varsParse>>

\* the words of a file verify_redaction reads, or Missing
WordLists == { <<>>, <<"<P>">>, <<"x">>, <<"<P>", "x">> }

\* verify_redaction: its result for the two files' contents
verify_redaction(redacted_words, expected_words) ==
    IF redacted_words = Missing \/ expected_words = Missing THEN FALSE
    ELSE IF Len(redacted_words.words) # Len(expected_words.words) THEN FALSE
    ELSE \A i \in 1..Len(redacted_words.words) :
             redacted_words.words[i] = expected_words.words[i]

WordFiles == {[kind |-> "words", words |-> w] : w \in WordLists} \cup {Missing}

\* main: verify_choice and verify_redaction, then "CLI session completed!"
VerifyRedaction ==
    /\ cpc = "verify_choice"
    /\ \E verify_choice \in {"y", "n"},
          verified \in {verify_redaction(r, e) : r \in WordFiles, e \in WordFiles} :
         failed_step' =
            IF verify_choice = "y" /\ ~verified /\ failed_step = "none"
            THEN "verify_redaction" ELSE failed_step
    /\ cpc' = "completed"
    /\ UNCHANGED <<run, urandom_draws, server_public_key, file, strategy, test_content,
                   session_key, encrypted_session_key, encrypted_file_data, inflight,
                   upload_result, log, download_inflight, downloaded_filename>>
    /\ UNCHANGED <<varsVerify, varsParse>>

\* the client is started again: a new process, the same OS random source
NewRun ==
    /\ cpc \in {"exit1", "crashed", "completed"}
    /\ run < MaxRuns
    /\ run' = run + 1
    /\ cpc' = "handshake"
    /\ ClientLocalsReset
    /\ UNCHANGED <<urandom_draws, log>>
    /\ UNCHANGED <<varsVerify, varsParse>>

\* get_pcrs_from_server is not in use
ParseIdle ==
    /\ rendering = [marker |-> FALSE, pre |-> <<>>, quoted |-> FALSE, segs |-> <<>>,
                    term |-> <<>>]
    /\ response = [net |-> "unreachable", status |-> 0, text |-> <<>>]
    /\ ppc = "idle"
    /\ current_pcrs = <<>>

InitClient == ClientInit /\ VerifyIdle /\ ParseIdle

NextClient ==
    \/ Handshake
    \/ SelectFile
    \/ ReadFile
    \/ GenerateSessionKey
    \/ EncryptSessionKey
    \/ EncryptFile
    \/ PostUpload
    \/ UploadResponse
    \/ ChooseDownload
    \/ DownloadResponse
    \/ ReadDownloaded
    \/ VerifyRedaction
    \/ NewRun

SpecClient == InitClient /\ [][NextClient]_vars

(***************************************************************************)
(* Python str operations used by get_pcrs_from_server; positions are       *)
(* 0-based as in Python.                                                   *)
(***************************************************************************)
NL == "\n"

Whitespace == {" ", NL, "\t", "\r"}

MinOf(S) == CHOOSE x \in S : \A y \in S : x <= y

\* pat occurs in text at 0-based position i
IsAt(text, pat, i) ==
    /\ i >= 0
    /\ i + Len(pat) <= Len(text)
    /\ SubSeq(text, i + 1, i + Len(pat)) = pat

\* text.find(pat, start)
Find(text, pat, start) ==
    LET hits == {i \in start..(Len(text) - Len(pat)) : IsAt(text, pat, i)} IN
    IF hits = {} THEN -1 ELSE MinOf(hits)

\* pat in text
Contains(text, pat) == Find(text, pat, 0) # -1

\* text[a:b] for a >= 0; a negative b counts from the end
Slice(text, a, b) ==
    LET n == Len(text)
        hi == IF b < 0 THEN (IF n + b < 0 THEN 0 ELSE n + b)
              ELSE (IF b > n THEN n ELSE b)
        lo == IF a > n THEN n ELSE a
    IN  IF lo >= hi THEN <<>> ELSE SubSeq(text, lo + 1, hi)

RECURSIVE LStrip(_, _)
LStrip(s, chars) ==
    IF s # <<>> /\ Head(s) \in chars THEN LStrip(Tail(s), chars) ELSE s

RECURSIVE RStrip(_, _)
RStrip(s, chars) ==
    IF s # <<>> /\ s[Len(s)] \in chars
    THEN RStrip(SubSeq(s, 1, Len(s) - 1), chars) ELSE s

\* s.strip() / s.strip(chars)
Strip(s, chars) == RStrip(LStrip(s, chars), chars)

StartsWith(s, pat) == IsAt(s, pat, 0)

EndsWith(s, pat) == IsAt(s, pat, Len(s) - Len(pat))

\* s.replace(old, new): left to right, occurrences do not overlap
RECURSIVE Replace(_, _, _)
Replace(s, old, new) ==
    IF Len(s) < Len(old) THEN s
    ELSE IF StartsWith(s, old)
    THEN new \o Replace(SubSeq(s, Len(old) + 1, Len(s)), old, new)
    ELSE <<Head(s)>> \o Replace(Tail(s), old, new)

\* s.split(c) for a one-character separator: always at least one part
RECURSIVE Split(_, _)
Split(s, c) ==
    LET i == Find(s, <<c>>, 0) IN
    IF i = -1 THEN <<s>>
    ELSE <<SubSeq(s, 1, i)>> \o Split(SubSeq(s, i + 2, Len(s)), c)

\* s.split(c, 1)
SplitOnce(s, c) ==
    LET i == Find(s, <<c>>, 0) IN
    IF i = -1 THEN <<s>>
    ELSE <<SubSeq(s, 1, i), SubSeq(s, i + 2, Len(s))>>

(***************************************************************************)
(* get_pcrs_from_server: the text after the marker, parsed into a dict.    *)
(***************************************************************************)
Marker ==
    <<"P", "C", "R", "s", " ", "r", "e", "t", "r", "i", "e", "v", "e",
        "d", " ", "f", "r", "o", "m", " ", "e", "n", "c", "l", "a", "v", "e",
        "'", "s", " ", "a", "t", "t", "e", "s", "t", "a", "t", "i", "o", "n",
        " ", "d", "o", "c", "u", "m", "e", "n", "t", ":">>

MarkerOffset == 47      \* text.find(...) + 47

EntPrefix == <<"e", "n", "t", ":", " ", "\"">>

EntPrefixLen == 6       \* pcrs_text[6:-1]

Quote == "\""

\* pcrs_text = text[start:end].strip()
PcrsText(text) ==
    LET start == Find(text, Marker, 0) + MarkerOffset
        end   == Find(text, <<NL>>, start)
    IN  Strip(Slice(text, start, end), Whitespace)

\* remove the 'ent: "' prefix and the trailing '"'
Unwrap(pcrs_text) ==
    IF StartsWith(pcrs_text, EntPrefix) /\ EndsWith(pcrs_text, <<Quote>>)
    THEN Slice(pcrs_text, EntPrefixLen, -1)
    ELSE pcrs_text

\* .replace('\\n', '\n').replace('\n', ' ').replace('  ', ' ')
Clean(pcrs_text) ==
    Replace(Replace(Replace(pcrs_text, <<"\\", "n">>, <<NL>>), <<NL>>, <<" ">>),
            <<" ", " ">>, <<" ">>)

\* the body of the for loop over the comma-separated pairs
ParsePair(pcrs, raw_pair) ==
    LET pair == Strip(raw_pair, Whitespace) IN
    IF Contains(pair, <<":">>)
    THEN LET parts == SplitOnce(pair, ":") IN
         IF Len(parts) = 2
         THEN DictSet(pcrs, Strip(parts[1], Whitespace),
                      Strip(Strip(parts[2], Whitespace), {Quote}))
         ELSE pcrs
    ELSE pcrs

RECURSIVE ParsePairs(_, _)
ParsePairs(pcrs, pairs) ==
    IF pairs = <<>> THEN pcrs
    ELSE ParsePairs(ParsePair(pcrs, Head(pairs)), Tail(pairs))

\* what get_pcrs_from_server returns for a reply of requests.post
get_pcrs_from_server(resp) ==
    IF resp.net # "ok" THEN <<>>                    \* except Exception
    ELSE IF resp.status # 200 THEN <<>>
    ELSE IF ~Contains(resp.text, Marker) THEN <<>>
    ELSE ParsePairs(<<>>, Split(Clean(Unwrap(PcrsText(resp.text))), ","))

(***************************************************************************)
(* The attestation server's reply, built from the PCR listing it renders.  *)
(***************************************************************************)
Idx0 == <<"0">>
Idx1 == <<"1">>
Idx2 == <<"2">>
HexA == <<"a", "a", "1", "1">>
HexB == <<"b", "b", "2", "2">>
HexC == <<"c", "c", "3", "3">>

\* "index: hexvalue"
RenderPair(idx, val) == idx \o <<":", " ">> \o val

\* segments of the listing: well-formed pairs first, then odd ones
SegPool ==
    << [pair |-> TRUE, idx |-> Idx0, val |-> HexA, raw |-> RenderPair(Idx0, HexA)],
       [pair |-> TRUE, idx |-> Idx1, val |-> HexB, raw |-> RenderPair(Idx1, HexB)],
       [pair |-> TRUE, idx |-> Idx0, val |-> HexC, raw |-> RenderPair(Idx0, HexC)],
       [pair |-> FALSE, idx |-> <<>>, val |-> <<>>, raw |-> <<"j", "u", "n", "k">>],
       [pair |-> FALSE, idx |-> Idx2, val |-> <<>>, raw |-> Idx2 \o <<":">>],
       [pair |-> FALSE, idx |-> Idx2, val |-> HexC,
        raw |-> <<" ">> \o Idx2 \o <<" ", ":", "\\", "n", Quote>> \o HexC \o <<Quote, " ">>],
       [pair |-> FALSE, idx |-> Idx1, val |-> HexB,
        raw |-> <<Quote>> \o Idx1 \o <<Quote, ":", " ", Quote, " ">> \o HexB \o <<Quote>>] >>

Segments == {SegPool[i] : i \in 1..Len(SegPool)}

SegLists == UNION {[1..n -> Segments] : n \in 0..MaxSegs}

\* the segments joined by ", "
RECURSIVE JoinSegs(_)
JoinSegs(segs) ==
    IF segs = <<>> THEN <<>>
    ELSE IF Len(segs) = 1 THEN segs[1].raw
    ELSE segs[1].raw \o <<",", " ">> \o JoinSegs(Tail(segs))

Renderings ==
    [marker : BOOLEAN,              \* the introductory marker is in the text
     pre    : {<<>>, <<"o", "k", NL>>},   \* text before the marker
     quoted : BOOLEAN,              \* the listing is wrapped in "..."
     segs   : SegLists,
     term   : {<<>>, <<NL>>, <<NL, "e", "n", "d">>}]    \* text after the listing

RenderText(r) ==
    r.pre
    \o (IF r.marker THEN Marker \o <<" ">> ELSE <<>>)
    \o (IF r.quoted THEN <<Quote>> ELSE <<>>)
    \o JoinSegs(r.segs)
    \o (IF r.quoted THEN <<Quote>> ELSE <<>>)
    \o r.term

Responses(r) ==
    { [net |-> "ok", status |-> 200, text |-> RenderText(r)],
      [net |-> "ok", status |-> 500, text |-> RenderText(r)],
      [net |-> "unreachable", status |-> 0, text |-> <<>>] }

ParseInit ==
    /\ rendering \in Renderings
    /\ response \in Responses(rendering)
    /\ ppc = "call"
    /\ current_pcrs = <<>>

GetPcrsFromServer ==
    /\ ppc = "call"
    /\ current_pcrs' = get_pcrs_from_server(response)
    /\ ppc' = "done"
    /\ UNCHANGED <<rendering, response, varsVerify, varsClient>>

InitParse == ParseInit /\ VerifyIdle /\ ClientIdle

NextParse == GetPcrsFromServer

SpecParse == InitParse /\ [][NextParse]_vars

InitVerify == VerifyInit /\ ClientIdle /\ ParseIdle

NextVerify == VerifyPcrs

SpecVerify == InitVerify /\ [][NextVerify]_vars

(***************************************************************************)
(* The verifier and the client as the two separate programs they are, run  *)
(* side by side against one enclave: one client run, one verification.     *)
(***************************************************************************)

\* expected_pcrs.json holds one index; the enclave reports the same digest,
\* another digest, or nothing
GateVerifyInit ==
    /\ expected = << <<KeyPool[1], DigestPool[1]>> >>
    /\ actual \in { << <<KeyPool[1], DigestPool[1]>> >>,
                    << <<KeyPool[1], DigestPool[3]>> >>,
                    <<>> }
    /\ vpc = "call"
    /\ verdict = NotRun

InitGate == ClientInit /\ GateVerifyInit /\ ParseIdle

NextGate ==
    \/ Handshake
    \/ SelectFile
    \/ ReadFile
    \/ GenerateSessionKey
    \/ EncryptSessionKey
    \/ EncryptFile
    \/ PostUpload
    \/ UploadResponse
    \/ ChooseDownload
    \/ DownloadResponse
    \/ ReadDownloaded
    \/ VerifyRedaction
    \/ VerifyPcrs

SpecGate == InitGate /\ [][NextGate]_vars

(***************************************************************************)
(* Claims about verify_pcrs, checked under SpecVerify.                     *)
(***************************************************************************)
AllExpectedPresentEqual(exp, act) ==
    \A i \in 1..Len(exp) :
        DictHas(act, exp[i][1]) /\ DictGet(act, exp[i][1]) = exp[i][2]

ExtraKeys == DictKeys(actual) \ DictKeys(expected)

\* C1: for a non-empty expected set, verify_pcrs returns True exactly when
\* every expected index is in actual with an equal value, and setting or
\* deleting an index that only actual has leaves the result the same.
C1_PassIffAllPresentEqual ==
    (vpc = "done" /\ expected # <<>>) =>
        /\ verdict.ret <=> AllExpectedPresentEqual(expected, actual)
        /\ \A k \in PcrKeys \ DictKeys(expected) :
              /\ verify_pcrs(expected, DictDel(actual, k)).ret = verdict.ret
              /\ \A d \in Digests :
                    verify_pcrs(expected, DictSet(actual, k, d)).ret = verdict.ret

\* C1 witness: a PASS although actual holds an index nobody expects
C1_Witness ==
    /\ vpc = "done" /\ expected # <<>>
    /\ verdict.ret
    /\ ExtraKeys # {}

\* C2: an expected index whose actual digest decodes to the same bytes
\* (differs at most in hex letter case) has no mismatches entry, and when
\* that is so for every expected index the verdict is not FAIL.
C2_DecodedEqualIsMatch ==
    (vpc = "done" /\ expected # <<>>) =>
        /\ \A i \in 1..Len(expected) :
              (/\ DictHas(actual, expected[i][1])
               /\ HexDecode(DictGet(actual, expected[i][1])) = HexDecode(expected[i][2]))
              => \A j \in 1..Len(verdict.mismatches) :
                    verdict.mismatches[j].pcr # expected[i][1]
        /\ (\A i \in 1..Len(expected) :
              /\ DictHas(actual, expected[i][1])
              /\ HexDecode(DictGet(actual, expected[i][1])) = HexDecode(expected[i][2]))
           => verdict.ret

\* C3: with an empty expected set verify_pcrs never returns True, and what
\* it returns and prints differs from every FAIL of a non-empty expected set.
C3_NoCriteriaDistinct ==
    (vpc = "done" /\ expected = <<>>) =>
        /\ ~verdict.ret
        /\ \A e2 \in OrderedDicts \ {<<>>} : \A a2 \in PoolOrderDicts :
              ~verify_pcrs(e2, a2).ret => verify_pcrs(e2, a2) # verdict

\* the outcome section 3 of the spec gives one expected item against act
SpecOutcome(act, item) ==
    IF ~DictHas(act, item[1])
    THEN [kind |-> "NOT_FOUND", pcr |-> item[1], expected |-> item[2], actual |-> <<>>]
    ELSE IF DictGet(act, item[1]) = item[2]
    THEN [kind |-> "MATCH", pcr |-> item[1], expected |-> item[2], actual |-> item[2]]
    ELSE [kind |-> "MISMATCH", pcr |-> item[1], expected |-> item[2],
          actual |-> DictGet(act, item[1])]

\* C12: verification emits exactly one outcome per expected index, MATCH,
\* MISMATCH (with the expected and the actual value) or MISSING (NOT_FOUND)
\* as the index is equal, different or absent in actual, and records one
\* failing entry for each index that is not MATCH and none for the others.
C12_OneOutcomePerIndex ==
    (vpc = "done" /\ expected # <<>>) =>
        /\ Len(verdict.printed) = Len(expected)
        /\ \A i \in 1..Len(verdict.printed) :
              \E j \in 1..Len(expected) :
                  verdict.printed[i] = SpecOutcome(actual, expected[j])
        /\ \A j \in 1..Len(expected) :
              Cardinality({i \in 1..Len(verdict.mismatches) :
                              verdict.mismatches[i].pcr = expected[j][1]})
                = (IF SpecOutcome(actual, expected[j]).kind = "MATCH" THEN 0 ELSE 1)
        /\ \A i \in 1..Len(verdict.mismatches) :
              \E j \in 1..Len(expected) :
                  verdict.mismatches[i] = SpecOutcome(actual, expected[j])

\* int(pcr_num) for a decimal index
RECURSIVE KeyNum(_)
KeyNum(k) ==
    IF k = <<>> THEN 0
    ELSE KeyNum(SubSeq(k, 1, Len(k) - 1)) * 10 + HexVal(k[Len(k)])

\* C16: the per-index outcomes are emitted in ascending numeric order of
\* the index, whatever the order of the keys in expected.
C16_AscendingNumericOrder ==
    vpc = "done" =>
        \A i, j \in 1..Len(verdict.printed) :
            i < j => KeyNum(verdict.printed[i].pcr) < KeyNum(verdict.printed[j].pcr)

(***************************************************************************)
(* Claims about the client, checked under SpecClient.                      *)
(***************************************************************************)
Events(kind) == {i \in 1..Len(log) : log[i].ev = kind}

\* the session key test_secure_upload generated in run r
GeneratedIn(r, key) == \E g \in Events("generate") : log[g].run = r /\ log[g].key = key

\* the blob is a PEM public key of the algorithm the client encrypts with
ValidPublicKey(blob) ==
    /\ blob # None
    /\ ~load_pem_public_key(blob).raised
    /\ load_pem_public_key(blob).value.kind = "RSAPublicKey"

\* C4: every call of encrypt_file_with_session_key encrypts with a nonce
\* drawn for that call from the random source, never with twelve zero bytes.
C4_FreshNonce ==
    \A i \in Events("encrypt") :
        /\ log[i].nonce # ZeroNonce
        /\ log[i].nonce.kind = "urandom"

\* C5: no two uploads share a session key: every key is generated once,
\* used only in the run that generated it, and two seals (also of the same
\* plaintext under the same public key) differ in encrypted_data and in
\* encrypted_session_key.
C5_FreshSessionKeys ==
    /\ \A i, j \in Events("generate") : i # j => log[i].key # log[j].key
    /\ \A i, j \in Events("wrap") :
          i # j => log[i].key # log[j].key /\ log[i].out # log[j].out
    /\ \A i, j \in Events("encrypt") :
          i # j => log[i].key # log[j].key /\ log[i].out # log[j].out
    /\ \A i \in Events("wrap") \cup Events("encrypt") :
          /\ GeneratedIn(log[i].run, log[i].key)
          /\ \A g \in Events("generate") :
                log[g].key = log[i].key => log[g].run = log[i].run
    /\ \A i \in Events("post") :
          /\ GeneratedIn(log[i].run, B64Decode(log[i].payload.encrypted_session_key)[1].msg)
          /\ GeneratedIn(log[i].run, B64Decode(log[i].payload.encrypted_data)[1].key)
    /\ \A i, j \in Events("post") :
          i # j =>
            /\ log[i].payload.encrypted_data # log[j].payload.encrypted_data
            /\ log[i].payload.encrypted_session_key # log[j].payload.encrypted_session_key

\* C5 witness: two runs have sent an upload of the same plaintext sealed
\* for the same public key
C5_Witness ==
    \E i, j \in Events("post") :
        /\ log[i].run # log[j].run
        /\ B64Decode(log[i].payload.encrypted_data)[1].data
             = B64Decode(log[j].payload.encrypted_data)[1].data
        /\ B64Decode(log[i].payload.encrypted_session_key)[1].pub
             = B64Decode(log[j].payload.encrypted_session_key)[1].pub

\* C6: the bytes encrypted_data encodes are the nonce of the encryption
\* followed by the AEAD ciphertext and tag.
C6_NoncePrefixed ==
    \A i \in Events("post") :
        \E e \in Events("encrypt") :
            /\ log[e].run = log[i].run
            /\ B64Decode(log[i].payload.encrypted_data)
                 = <<log[e].nonce>> \o CipherEncrypt(log[e].key, log[e].nonce, log[e].data)

\* C7: an upload request is sent only after the key wrapping and the
\* payload encryption of the same run succeeded and carries their two
\* results with file_name and redaction_strategy; after a failed wrapping
\* or encryption the run sends no request and test_secure_upload returns
\* None.
C7_NoPartialEnvelope ==
    /\ \A i \in Events("post") :
          /\ \E w \in Events("wrap") :
                /\ w < i /\ log[w].run = log[i].run
                /\ log[i].payload.encrypted_session_key = log[w].out
          /\ \E e \in Events("encrypt") :
                /\ e < i /\ log[e].run = log[i].run
                /\ log[i].payload.encrypted_data = log[e].out
          /\ log[i].payload.encrypted_data # None
          /\ log[i].payload.encrypted_session_key # None
          /\ log[i].payload.file_name \in {NameWithoutExt(n) : n \in FileNames}
          /\ log[i].payload.redaction_strategy \in Strategies
    /\ \A f \in Events("wrap_failed") \cup Events("encrypt_failed") :
          /\ \A i \in Events("post") : log[i].run # log[f].run
          /\ log[f].run = run => (cpc = "exit1" /\ upload_result = None /\ inflight = None)

\* C7 witness: an earlier run sent a full envelope, and this run ended
\* without a request because the public key did not load or encrypt
C7_Witness ==
    /\ \E i \in Events("post") : log[i].run < run
    /\ \E f \in Events("wrap_failed") : log[f].run = run
    /\ cpc = "exit1"

\* C8: the handshake returns a key only for a reachable endpoint that
\* answered 200 with a valid public key of the expected algorithm, and in
\* every other case the run generates no session key and sends no upload.
C8_HandshakeValidatesKey ==
    \A h \in Events("handshake") :
        LET good == /\ log[h].reply.net = "ok"
                    /\ log[h].reply.status = 200
                    /\ ValidPublicKey(log[h].reply.public_key)
        IN  /\ Truthy(log[h].returned) => good
            /\ ~good => \A i \in Events("generate") \cup Events("post") :
                            log[i].run # log[h].run

\* C13: a download request is on the wire only in a run whose upload was
\* sent and answered with success, and it asks for exactly the file_id that
\* upload returned; a run whose upload returned nothing has no download
\* request and no downloaded file.
C13_DownloadAfterUpload ==
    /\ download_inflight # None =>
          /\ upload_result.kind = "tuple"
          /\ download_inflight.file_id = upload_result.file_id
          /\ \E i \in Events("post") : log[i].run = run
    /\ upload_result = None =>
          /\ download_inflight = None
          /\ downloaded_filename = None
          /\ cpc \notin {"await_download", "read_downloaded", "verify_choice"}

\* C13 witness: after an earlier run posted an upload, this run's upload
\* returned file_id "f2" and the download of "f2" is on the wire
C13_Witness ==
    /\ download_inflight # None
    /\ download_inflight.file_id = <<"f", "2">>
    /\ upload_result.file_id = <<"f", "2">>
    /\ \E i \in Events("post") : log[i].run < run

\* C14: a run that ends with the completion message has had no failed
\* step: nothing was caught and passed over on the way to the message.
C14_NoSuccessAfterFailure ==
    cpc = "completed" => failed_step = "none"

(***************************************************************************)
(* Claims about the attestation text parser, checked under SpecParse.      *)
(***************************************************************************)
\* the reply is a 200 whose text get_pcrs_from_server has processed
Parsed == ppc = "done" /\ response.net = "ok" /\ response.status = 200

\* the marker, then on the same line one or more "index: hexvalue" pairs
\* with distinct indices, then a line break
WellFormedListing(r) ==
    /\ r.marker
    /\ r.segs # <<>>
    /\ \A i \in 1..Len(r.segs) : r.segs[i].pair
    /\ \A i, j \in 1..Len(r.segs) : i # j => r.segs[i].idx # r.segs[j].idx
    /\ r.term # <<>>

\* the mapping the listing states
ListingDict(segs) == [i \in 1..Len(segs) |-> <<segs[i].idx, segs[i].val>>]

SameMapping(d1, d2) ==
    /\ DictKeys(d1) = DictKeys(d2)
    /\ \A k \in DictKeys(d1) : DictGet(d1, k) = DictGet(d2, k)

\* C9: for a well-formed listing after the marker, quoted or not, the
\* parser returns exactly the mapping of each index to its hex value.
C9_ParsesListing ==
    (Parsed /\ WellFormedListing(rendering)) =>
        SameMapping(current_pcrs, ListingDict(rendering.segs))

\* the same reply without the introductory marker
WithoutMarker(resp, r) == [resp EXCEPT !.text = RenderText([r EXCEPT !.marker = FALSE])]

\* the marker is there and no segment after it has a colon
FoundAndEmpty(r) ==
    /\ r.marker
    /\ \A i \in 1..Len(r.segs) : ~Contains(r.segs[i].raw, <<":">>)

\* C10: what the parser returns when the marker is present and no
\* index/value pair follows differs from what it returns for the same
\* reply without the marker.
C10_NotFoundDistinct ==
    (Parsed /\ FoundAndEmpty(rendering)) =>
        current_pcrs # get_pcrs_from_server(WithoutMarker(response, rendering))

HexDigits ==
    {"0", "1", "2", "3", "4", "5", "6", "7", "8", "9",
     "a", "b", "c", "d", "e", "f", "A", "B", "C", "D", "E", "F"}

\* a hex encoding of one or more whole bytes
ValidHexDigest(v) ==
    /\ v # <<>>
    /\ Len(v) % 2 = 0
    /\ \A i \in 1..Len(v) : v[i] \in HexDigits

\* C11: every value of the dict the parser returns is a valid hex digest
\* (non-empty, whole bytes, hex characters only); a segment with an empty
\* or non-hex value is never stored.
C11_DigestsValidHex ==
    Parsed => \A i \in 1..Len(current_pcrs) : ValidHexDigest(current_pcrs[i][2])

EdgeChars == Whitespace \cup {Quote}

Trimmed(v) == v = <<>> \/ (v[1] \notin EdgeChars /\ v[Len(v)] \notin EdgeChars)

\* C17: no index and no value the parser stores begins or ends with
\* whitespace or a quote character.
C17_PartsTrimmed ==
    Parsed => \A i \in 1..Len(current_pcrs) :
                  Trimmed(current_pcrs[i][1]) /\ Trimmed(current_pcrs[i][2])

\* C18: for a reply whose text ends directly after the listing, the parser
\* returns what it returns for the same text with a line break appended.
C18_NewlineIndependent ==
    (Parsed /\ rendering.marker /\ rendering.term = <<>>) =>
        current_pcrs
          = get_pcrs_from_server([response EXCEPT !.text = response.text \o <<NL>>])

(***************************************************************************)
(* Claims about the client next to the verifier, checked under SpecGate.   *)
(***************************************************************************)

\* C15: no step of the client waits for a verification verdict: at every
\* position of the run the step of that position can be taken whatever the
\* verifier has done or said, so a run can go through handshake, upload and
\* download with the verification never run or failed.
C15_NoStepGated ==
    /\ cpc = "handshake" => ENABLED Handshake
    /\ cpc = "select_file" => ENABLED SelectFile
    /\ cpc = "read_file" => ENABLED ReadFile
    /\ cpc = "gen_key" => ENABLED GenerateSessionKey
    /\ cpc = "wrap_key" => ENABLED EncryptSessionKey
    /\ cpc = "encrypt" => ENABLED EncryptFile
    /\ cpc = "post" => ENABLED PostUpload
    /\ cpc = "await" => ENABLED UploadResponse
    /\ cpc = "uploaded" => ENABLED ChooseDownload
    /\ cpc = "await_download" => ENABLED DownloadResponse
    /\ cpc = "read_downloaded" => ENABLED ReadDownloaded
    /\ cpc = "verify_choice" => ENABLED VerifyRedaction

\* C15 witness: the run has handshaken, uploaded and downloaded, and the
\* verification against the enclave has either not run or has failed
C15_Witness ==
    /\ server_public_key # None
    /\ upload_result.kind = "tuple"
    /\ downloaded_filename # None
    /\ cpc = "completed"
    /\ ~verdict.ret

====
